---- MODULE Spec2Model ----
(***************************************************************************)
(* Model of daisy/workflow/step_create_instances.go: the CreateInstances   *)
(* workflow step (validate, run and the serial console streamer            *)
(* logSerialOutput).                                                       *)
(***************************************************************************)
EXTENDS Integers, Sequences, FiniteSets, TLC

\* ------------------------------------------------------------------ bounds
\* Largest number of CreateInstance entries in the step run by Spec.
MaxInstances == 2

\* ------------------------------------------------------------- data model
\* Declared names are the tuples <<"vm", k>>.
NameOf(k) == <<"vm", k>>

\* Disk references of a CreateInstance: a real link, or a reference to a disk
\* of an earlier step.
DiskLink == "projects/p/zones/z/disks/d"
DiskRef == "disk"

DiskGone == "gone"

\* isLink(sourceDisk): does the string have the shape of a resource link.
isLink(d) == d = DiskLink

\* diskValid(w, d): a link, or the name of a disk an earlier step declares.
diskValid(d) == isLink(d) \/ d = DiskRef

\* w.sourceExists(file): the file is among the sources of the workflow.
sourceExists(f) == f = "setup.sh"

\* w.genName(ci.Name): the name derived from the declared name for this run.
genName(n) == <<n, "wf", "id">>

\* Metadata: a map from keys to values. NoMetadata is the empty map.
NoMetadata == [k \in {} |-> ""]

\* inst.AddMetadata(more): the entries of more are set, over those there.
AddMetadata(m, more) == more @@ m

\* filepath.Ext of the startup scripts of the model.
Ext(f) ==
    CASE f = "install.ps1" -> ".ps1"
      [] f = "gone.ps1" -> ".ps1"
      [] f = "run.bat" -> ".bat"
      [] f = "setup.sh" -> ".sh"
      [] OTHER -> ""

\* "gs://" + path.Join(w.bucket, ...): the parts after the bucket.
GsPath(parts) == <<"gs://", "bucket">> \o parts

\* The CreateInstance at position k of the step run by Spec. Names are
\* distinct and every entry has a disk, as validate demands.
CreateInstance(k) ==
    [Name |-> NameOf(k),
     AttachedDisks |-> IF k % 2 = 1 THEN <<DiskLink, DiskRef>> ELSE <<DiskRef>>,
     StartupScript |-> IF k % 2 = 1 THEN "setup.sh" ELSE "",
     Metadata |-> IF k % 2 = 1 THEN NoMetadata ELSE [x \in {"daisy-logs-path"} |-> <<"mine">>],
     NoCleanup |-> (k % 2 = 0),
     ExactName |-> (k % 2 = 1)]

\* Error values. Nil is the nil error; NoResult marks "run has not returned".
\* An error names the call that failed, the goroutine and the disk position.
Nil == [op |-> "nil", inst |-> 0, disk |-> 0]
NoResult == [op |-> "none", inst |-> 0, disk |-> 0]
Err(op, i, k) == [op |-> op, inst |-> i, disk |-> k]

\* The absent entry of a reference map.
NoRes == [name |-> <<>>, real |-> <<>>, link |-> <<>>, noCleanup |-> FALSE]

VARIABLES
    c,            \* the step: a sequence of CreateInstance
    mainPc,       \* position of run: "spawn", "select", "cancelWait", "returned"
    spawned,      \* number of loop iterations of run done (goroutines started)
    result,       \* the error run returned
    wg,           \* sync.WaitGroup counter
    ppc,          \* position of each provisioner goroutine
    perr,         \* the err a provisioner holds
    name,         \* the resolved name of each provisioner
    wpc,          \* position of the goroutine that waits and sends nil
    Cancel,       \* w.Cancel is closed
    instanceRefs, \* the reference map of created instances, by declared name
    md,           \* the metadata of the instance each provisioner builds
    lookups,      \* the w.getDisk calls of each provisioner, in order
    CtxDone,      \* w.Ctx is done
    spc,          \* position of each logSerialOutput goroutine
    start,        \* logSerialOutput: the offset of the next fetch
    buf,          \* logSerialOutput: the bytes.Buffer
    logsObj,      \* the contents of each instance's log object in the bucket
    fetches,      \* the GetSerialPortOutput calls that succeeded, by instance, in order
    vpc,          \* position of validate: "loop" or "returned"
    vi,           \* validate: the number of loop iterations completed
    verr,         \* the error validate returned
    validatedInstances, \* the set of instance names registered by validate
    added,        \* the names validatedInstances.add accepted in this call, in order
    names0        \* the set validatedInstances held when validate was called

runVars == <<c, mainPc, spawned, result, wg, ppc, perr, name, wpc, Cancel, instanceRefs, md, lookups>>
streamVars == <<CtxDone, spc, start, buf, logsObj, fetches>>
validateVars == <<vpc, vi, verr, validatedInstances, added, names0>>
vars == <<runVars, streamVars, validateVars>>

Insts == 1..Len(c)
Slots == 1..MaxInstances
DeclNames == {NameOf(k) : k \in Slots}

\* run has not started.
InitRun ==
    /\ mainPc = "spawn"
    /\ spawned = 0
    /\ result = NoResult
    /\ wg = 0
    /\ ppc = [i \in Slots |-> "idle"]
    /\ perr = [i \in Slots |-> Nil]
    /\ name = [i \in Slots |-> <<>>]
    /\ wpc = "idle"
    /\ Cancel = FALSE
    /\ instanceRefs = [n \in DeclNames |-> NoRes]
    /\ md = [i \in Slots |-> NoMetadata]
    /\ lookups = [i \in Slots |-> <<>>]
    /\ CtxDone = FALSE
    /\ spc = [i \in Slots |-> "none"]
    /\ start = [i \in Slots |-> 0]
    /\ buf = [i \in Slots |-> <<>>]
    /\ logsObj = [i \in Slots |-> <<>>]
    /\ fetches = [i \in Slots |-> <<>>]

RECURSIVE NamesOf(_)
NamesOf(s) == IF s = <<>> THEN <<>> ELSE <<Head(s).Name>> \o NamesOf(Tail(s))

\* The state in which run is called: validate has accepted the step.
Init ==
    /\ \E n \in 0..MaxInstances : c = [k \in 1..n |-> CreateInstance(k)]
    /\ InitRun
    /\ vpc = "returned"
    /\ vi = Len(c)
    /\ verr = Nil
    /\ validatedInstances = {c[k].Name : k \in 1..Len(c)}
    /\ added = NamesOf(c)
    /\ names0 = {}

\* ------------------------------------------------------------ run: main
\* One iteration of the loop: wg.Add(1); go func(ci) {...}(ci).
Spawn ==
    /\ mainPc = "spawn"
    /\ spawned < Len(c)
    /\ spawned' = spawned + 1
    /\ wg' = wg + 1
    /\ ppc' = [ppc EXCEPT ![spawned + 1] = "start"]
    /\ UNCHANGED <<c, md, lookups, mainPc, result, perr, name, wpc, Cancel, instanceRefs, streamVars, validateVars>>

\* go func() { wg.Wait(); e <- nil }(), then run reaches its select.
SpawnWaiter ==
    /\ mainPc = "spawn"
    /\ spawned = Len(c)
    /\ wpc' = "wait"
    /\ mainPc' = "select"
    /\ UNCHANGED <<c, md, lookups, spawned, result, wg, ppc, perr, name, Cancel, instanceRefs, streamVars, validateVars>>

\* RecvErr with the error of the last goroutine returned in place of the
\* error received.
RecvErrOfLast(i) ==
    /\ mainPc = "select"
    /\ ppc[i] = "sendErr"
    /\ result' = perr[Len(c)]
    /\ mainPc' = "returned"
    /\ ppc' = [ppc EXCEPT ![i] = "deferDone"]
    /\ UNCHANGED <<c, md, lookups, spawned, wg, perr, name, wpc, Cancel, instanceRefs, streamVars, validateVars>>

\* case err := <-e, with provisioner i the sender: return err.
RecvErr(i) ==
    /\ mainPc = "select"
    /\ ppc[i] = "sendErr"
    /\ result' = perr[i]
    /\ mainPc' = "returned"
    /\ ppc' = [ppc EXCEPT ![i] = "deferDone"]
    /\ UNCHANGED <<c, md, lookups, spawned, wg, perr, name, wpc, Cancel, instanceRefs, streamVars, validateVars>>

\* case err := <-e, with the waiting goroutine the sender: return nil.
RecvNil ==
    /\ mainPc = "select"
    /\ wpc = "send"
    /\ result' = Nil
    /\ mainPc' = "returned"
    /\ wpc' = "done"
    /\ UNCHANGED <<c, md, lookups, spawned, wg, ppc, perr, name, Cancel, instanceRefs, streamVars, validateVars>>

\* case <-w.Cancel.
RecvCancel ==
    /\ mainPc = "select"
    /\ Cancel
    /\ mainPc' = "cancelWait"
    /\ UNCHANGED <<c, md, lookups, spawned, result, wg, ppc, perr, name, wpc, Cancel, instanceRefs, streamVars, validateVars>>

\* CancelWait without the wg.Wait().
CancelNoWait ==
    /\ mainPc = "cancelWait"
    /\ result' = Nil
    /\ mainPc' = "returned"
    /\ UNCHANGED <<c, md, lookups, spawned, wg, ppc, perr, name, wpc, Cancel, instanceRefs, streamVars, validateVars>>

\* wg.Wait(); return nil on the cancellation path.
CancelWait ==
    /\ mainPc = "cancelWait"
    /\ wg = 0
    /\ result' = Nil
    /\ mainPc' = "returned"
    /\ UNCHANGED <<c, md, lookups, spawned, wg, ppc, perr, name, wpc, Cancel, instanceRefs, streamVars, validateVars>>

\* ----------------------------------------------------- run: waiting goroutine
WaiterWait ==
    /\ wpc = "wait"
    /\ wg = 0
    /\ wpc' = "send"
    /\ UNCHANGED <<c, md, lookups, mainPc, spawned, result, wg, ppc, perr, name, Cancel, instanceRefs, streamVars, validateVars>>

\* ------------------------------------------------------- the environment
\* Somebody closes w.Cancel.
CloseCancel ==
    /\ ~Cancel
    /\ Cancel' = TRUE
    /\ UNCHANGED <<c, md, lookups, mainPc, spawned, result, wg, ppc, perr, name, wpc, instanceRefs, streamVars, validateVars>>

\* -------------------------------------------------- run: provisioners
\* The loop over ci.AttachedDisks, with found the set of positions whose
\* w.getDisk succeeds: the position of the first reference that is no link and
\* is not found (the loop ends there with its error), or 0.
FirstMissing(disks, found) ==
    LET bad == {k \in 1..Len(disks) : ~isLink(disks[k]) /\ k \notin found}
    IN  IF bad = {} THEN 0 ELSE CHOOSE k \in bad : \A j \in bad : k <= j

\* The w.getDisk calls of the loop from position k on, when m is the position
\* of the first reference that is not found (0: none): links are not looked
\* up, and the loop ends at m.
RECURSIVE Lookups(_, _, _)
Lookups(disks, m, k) ==
    IF k > Len(disks) \/ (m # 0 /\ k > m) THEN <<>>
    ELSE (IF isLink(disks[k]) THEN <<>> ELSE <<[pos |-> k, ok |-> k # m]>>)
             \o Lookups(disks, m, k + 1)

\* The metadata of the instance made for ci: the startup script under its key,
\* then ci.Metadata, then the standard Daisy metadata.
Metadata(ci) ==
    LET startup == IF Ext(ci.StartupScript) \in {".ps1", ".bat", ".cmd"}
                   THEN "windows-startup-script-url" ELSE "startup-script-url"
        m1 == IF ci.StartupScript # ""
              THEN AddMetadata(NoMetadata,
                       [x \in {startup} |-> GsPath(<<"sources", ci.StartupScript>>)])
              ELSE NoMetadata
        m2 == AddMetadata(m1, ci.Metadata)
    IN  AddMetadata(m2,
            [x \in {"daisy-sources-path", "daisy-logs-path", "daisy-outs-path"} |->
                CASE x = "daisy-sources-path" -> GsPath(<<"sources">>)
                  [] x = "daisy-logs-path" -> GsPath(<<"logs">>)
                  [] x = "daisy-outs-path" -> GsPath(<<"outs">>)])

\* ProvBuild as it would be if a disk that is not found were passed over.
ProvBuildSkipsMissing(i) ==
    /\ ppc[i] = "start"
    /\ name' = [name EXCEPT ![i] = IF c[i].ExactName THEN c[i].Name ELSE genName(c[i].Name)]
    /\ \/ /\ ppc' = [ppc EXCEPT ![i] = "sendErr"]
          /\ perr' = [perr EXCEPT ![i] = Err("NewInstance", i, 0)]
          /\ UNCHANGED <<md, lookups>>
       \/ \E found \in SUBSET (1..Len(c[i].AttachedDisks)) :
            LET m == FirstMissing(c[i].AttachedDisks, found)
            IN  /\ lookups' = [lookups EXCEPT ![i] = Lookups(c[i].AttachedDisks, m, 1)]
                /\ ppc' = [ppc EXCEPT ![i] = "insert"]
                /\ perr' = perr
                /\ md' = [md EXCEPT ![i] = Metadata(c[i])]
    /\ UNCHANGED <<c, mainPc, spawned, result, wg, wpc, Cancel, instanceRefs>>
    /\ UNCHANGED <<streamVars, validateVars>>

\* From the start of the goroutine to the call of inst.Insert():
\* name := ci.Name; if !ci.ExactName { name = w.genName(ci.Name) };
\* inst, err := w.ComputeClient.NewInstance(...); the loop over the disks;
\* the metadata. An error of NewInstance or of getDisk goes to e <- err.
ProvBuild(i) ==
    /\ ppc[i] = "start"
    /\ name' = [name EXCEPT ![i] =
                   IF c[i].ExactName THEN c[i].Name ELSE genName(c[i].Name)]
    /\ \/ /\ ppc' = [ppc EXCEPT ![i] = "sendErr"]
          /\ perr' = [perr EXCEPT ![i] = Err("NewInstance", i, 0)]
          /\ UNCHANGED <<md, lookups>>
       \/ \E found \in SUBSET (1..Len(c[i].AttachedDisks)) :
            LET m == FirstMissing(c[i].AttachedDisks, found)
            IN  /\ lookups' = [lookups EXCEPT ![i] = Lookups(c[i].AttachedDisks, m, 1)]
                /\ IF m = 0
                   THEN /\ ppc' = [ppc EXCEPT ![i] = "insert"]
                        /\ perr' = perr
                        /\ md' = [md EXCEPT ![i] = Metadata(c[i])]
                   ELSE /\ ppc' = [ppc EXCEPT ![i] = "sendErr"]
                        /\ perr' = [perr EXCEPT ![i] = Err("getDisk", i, m)]
                        /\ md' = md
    /\ UNCHANGED <<c, mainPc, spawned, result, wg, wpc, Cancel, instanceRefs, streamVars, validateVars>>

\* ProvInsert where a failed Insert is recorded but the goroutine goes on as
\* after a success.
ProvInsertGoesOn(i) ==
    /\ ppc[i] = "insert"
    /\ ppc' = [ppc EXCEPT ![i] = "goLog"]
    /\ \/ perr' = perr
       \/ perr' = [perr EXCEPT ![i] = Err("Insert", i, 0)]
    /\ UNCHANGED <<c, md, lookups, mainPc, spawned, result, wg, name, wpc, Cancel, instanceRefs, streamVars, validateVars>>

\* ProvInsert as it would be if e had a buffer: the send of the error does
\* not wait for run.
ProvInsertBuffered(i) ==
    /\ ppc[i] = "insert"
    /\ \/ /\ ppc' = [ppc EXCEPT ![i] = "goLog"]
          /\ perr' = perr
       \/ /\ ppc' = [ppc EXCEPT ![i] = "deferDone"]
          /\ perr' = [perr EXCEPT ![i] = Err("Insert", i, 0)]
    /\ UNCHANGED <<c, md, lookups, mainPc, spawned, result, wg, name, wpc, Cancel, instanceRefs, streamVars, validateVars>>

\* i, err := inst.Insert() returns.
ProvInsert(i) ==
    /\ ppc[i] = "insert"
    /\ \/ /\ ppc' = [ppc EXCEPT ![i] = "goLog"]
          /\ perr' = perr
       \/ /\ ppc' = [ppc EXCEPT ![i] = "sendErr"]
          /\ perr' = [perr EXCEPT ![i] = Err("Insert", i, 0)]
    /\ UNCHANGED <<c, md, lookups, mainPc, spawned, result, wg, name, wpc, Cancel, instanceRefs, streamVars, validateVars>>

\* go logSerialOutput(w, name, 1).
ProvGoLog(i) ==
    /\ ppc[i] = "goLog"
    /\ ppc' = [ppc EXCEPT ![i] = "add"]
    /\ spc' = [spc EXCEPT ![i] = "select"]
    /\ UNCHANGED <<c, md, lookups, mainPc, spawned, result, wg, perr, name, wpc, Cancel, instanceRefs,
                   CtxDone, start, buf, logsObj, fetches, validateVars>>

\* The SelfLink of the instance Insert returned.
SelfLink(n) == <<"link", n>>

\* refMap.add(name, r): the entry of the map under name becomes r.
refMapAdd(m, n, r) == [m EXCEPT ![n] = r]

\* ProvAdd as an unprotected write of a copy of the map taken when it was
\* empty: the entries of the other goroutines are lost.
ProvAddLosesOthers(i) ==
    /\ ppc[i] = "add"
    /\ instanceRefs' = [n \in DeclNames |->
                           IF n = c[i].Name
                           THEN [name |-> c[i].Name, real |-> name[i],
                                 link |-> SelfLink(name[i]), noCleanup |-> c[i].NoCleanup]
                           ELSE NoRes]
    /\ ppc' = [ppc EXCEPT ![i] = "deferDone"]
    /\ UNCHANGED <<c, md, lookups, mainPc, spawned, result, wg, perr, name, wpc, Cancel, streamVars, validateVars>>

\* ProvAdd as it would be if a goroutine gave up once run has returned an
\* error.
ProvAddUnlessFailed(i) ==
    /\ ppc[i] = "add"
    /\ ~(mainPc = "returned" /\ result # Nil)
    /\ instanceRefs' = refMapAdd(instanceRefs, c[i].Name,
                           [name |-> c[i].Name, real |-> name[i],
                            link |-> SelfLink(name[i]), noCleanup |-> c[i].NoCleanup])
    /\ ppc' = [ppc EXCEPT ![i] = "deferDone"]
    /\ UNCHANGED <<c, md, lookups, mainPc, spawned, result, wg, perr, name, wpc, Cancel, streamVars, validateVars>>

\* w.instanceRefs.add(ci.Name, &resource{ci.Name, name, i.SelfLink, ci.NoCleanup}).
ProvAdd(i) ==
    /\ ppc[i] = "add"
    /\ instanceRefs' = refMapAdd(instanceRefs, c[i].Name,
                           [name |-> c[i].Name, real |-> name[i],
                            link |-> SelfLink(name[i]), noCleanup |-> c[i].NoCleanup])
    /\ ppc' = [ppc EXCEPT ![i] = "deferDone"]
    /\ UNCHANGED <<c, md, lookups, mainPc, spawned, result, wg, perr, name, wpc, Cancel, streamVars, validateVars>>

\* ProvDone without the wg.Done().
ProvNoDone(i) ==
    /\ ppc[i] = "deferDone"
    /\ ppc' = [ppc EXCEPT ![i] = "done"]
    /\ UNCHANGED <<c, md, lookups, mainPc, spawned, result, wg, perr, name, wpc, Cancel, instanceRefs, streamVars, validateVars>>

\* defer wg.Done().
ProvDone(i) ==
    /\ ppc[i] = "deferDone"
    /\ wg' = wg - 1
    /\ ppc' = [ppc EXCEPT ![i] = "done"]
    /\ UNCHANGED <<c, md, lookups, mainPc, spawned, result, perr, name, wpc, Cancel, instanceRefs, streamVars, validateVars>>

\* ------------------------------------------------------ logSerialOutput
\* What a successful GetSerialPortOutput may answer: new contents, and by how
\* much Next is beyond the offset of the fetch. In Spec, where the goroutines
\* of several instances interleave, every fetch gets the first answer.
Answers == {[Contents |-> <<"a">>, Grow |-> 1], [Contents |-> <<"b">>, Grow |-> 2]}
RunAnswers == {[Contents |-> <<"a">>, Grow |-> 1]}
Responses(s, answers) == {[Contents |-> a.Contents, Next |-> s + a.Grow] : a \in answers}

\* case <-w.Ctx.Done(): return.
LogCtxDone(i) ==
    /\ spc[i] = "select"
    /\ CtxDone
    /\ spc' = [spc EXCEPT ![i] = "exit"]
    /\ UNCHANGED <<runVars, CtxDone, start, buf, logsObj, fetches, validateVars>>

\* The number of fetches that have succeeded, over all the goroutines.
RECURSIVE FetchesUpTo(_)
FetchesUpTo(k) ==
    IF k = 0 THEN 0
    ELSE FetchesUpTo(k - 1) + Len(fetches[k])
FetchCount == FetchesUpTo(MaxInstances)

\* LogFetchOk as it would be if start were not set to resp.Next.
LogFetchOkFromStart(i, maxFetches, answers) ==
    /\ spc[i] = "select"
    /\ FetchCount < maxFetches
    /\ \E resp \in Responses(start[i], answers) :
          /\ start' = start
          /\ buf' = [buf EXCEPT ![i] = @ \o resp.Contents]
          /\ fetches' = [fetches EXCEPT ![i] = Append(@,
                 [from |-> start[i], next |-> resp.Next, contents |-> resp.Contents])]
    /\ spc' = [spc EXCEPT ![i] = "write"]
    /\ UNCHANGED <<runVars, CtxDone, logsObj, validateVars>>

\* case <-tick, and GetSerialPortOutput(w.Project, w.Zone, name, port, start)
\* succeeds: start = resp.Next; buf.WriteString(resp.Contents); the writer of
\* the log object is made.
LogFetchOk(i, maxFetches, answers) ==
    /\ spc[i] = "select"
    /\ FetchCount < maxFetches
    /\ \E resp \in Responses(start[i], answers) :
          /\ start' = [start EXCEPT ![i] = resp.Next]
          /\ buf' = [buf EXCEPT ![i] = @ \o resp.Contents]
          /\ fetches' = [fetches EXCEPT ![i] = Append(@,
                 [from |-> start[i], next |-> resp.Next, contents |-> resp.Contents])]
    /\ spc' = [spc EXCEPT ![i] = "write"]
    /\ UNCHANGED <<runVars, CtxDone, logsObj, validateVars>>

\* LogFetchErr with the error sent on e, where run receives it.
LogFetchErrSent(i) ==
    /\ spc[i] = "select"
    /\ spc' = [spc EXCEPT ![i] = "exit"]
    /\ IF mainPc = "select"
       THEN /\ mainPc' = "returned"
            /\ result' = Err("GetSerialPortOutput", i, 0)
       ELSE UNCHANGED <<mainPc, result>>
    /\ UNCHANGED <<c, md, lookups, spawned, wg, ppc, perr, name, wpc, Cancel, instanceRefs,
                   CtxDone, start, buf, logsObj, fetches, validateVars>>

\* case <-tick, and GetSerialPortOutput fails: InstanceStopped is asked, and
\* the function returns either way (the error is logged unless the instance
\* has stopped).
LogFetchErr(i) ==
    /\ spc[i] = "select"
    /\ \E stopped \in BOOLEAN, sErr \in BOOLEAN :
          spc' = [spc EXCEPT ![i] = IF stopped /\ ~sErr THEN "exit" ELSE "exit"]
    /\ UNCHANGED <<runVars, CtxDone, start, buf, logsObj, fetches, validateVars>>

\* LogWrite as it would be if the loop went on after a write that failed.
LogWriteGoesOn(i) ==
    /\ spc[i] = "write"
    /\ \/ spc' = [spc EXCEPT ![i] = "close"]
       \/ spc' = [spc EXCEPT ![i] = "select"]
    /\ UNCHANGED <<runVars, CtxDone, start, buf, logsObj, fetches, validateVars>>

\* wc.Write(buf.Bytes()) succeeds, or fails and the function returns.
LogWrite(i) ==
    /\ spc[i] = "write"
    /\ \/ spc' = [spc EXCEPT ![i] = "close"]
       \/ spc' = [spc EXCEPT ![i] = "exit"]
    /\ UNCHANGED <<runVars, CtxDone, start, buf, logsObj, fetches, validateVars>>

\* LogClose as it would be if the object were appended to.
LogCloseAppends(i) ==
    /\ spc[i] = "close"
    /\ \/ /\ spc' = [spc EXCEPT ![i] = "select"]
          /\ logsObj' = [logsObj EXCEPT ![i] = @ \o buf[i]]
       \/ /\ spc' = [spc EXCEPT ![i] = "exit"]
          /\ logsObj' = logsObj
    /\ UNCHANGED <<runVars, CtxDone, start, buf, fetches, validateVars>>

\* wc.Close() succeeds and the object holds what was written, or fails and
\* the function returns.
LogClose(i) ==
    /\ spc[i] = "close"
    /\ \/ /\ spc' = [spc EXCEPT ![i] = "select"]
          /\ logsObj' = [logsObj EXCEPT ![i] = buf[i]]
       \/ /\ spc' = [spc EXCEPT ![i] = "exit"]
          /\ logsObj' = logsObj
    /\ UNCHANGED <<runVars, CtxDone, start, buf, fetches, validateVars>>

\* Somebody cancels w.Ctx.
CtxCancel ==
    /\ ~CtxDone
    /\ CtxDone' = TRUE
    /\ UNCHANGED <<runVars, spc, start, buf, logsObj, fetches, validateVars>>

\* ------------------------------------------------------------- validate
\* validatedInstances.add(w, name): the name is refused if it is in the set.
nameSetHas(set, n) == n \in set

\* The position of the first disk of the list that is not valid, or 0.
FirstInvalid(disks) ==
    LET bad == {k \in 1..Len(disks) : ~diskValid(disks[k])}
    IN  IF bad = {} THEN 0 ELSE CHOOSE k \in bad : \A j \in bad : k <= j

\* validateOne with the startup script checked before the disks.
validateOneScriptFirst(ci, k, names) ==
    IF ci.StartupScript # "" /\ ~sourceExists(ci.StartupScript)
        THEN Err("file not found", k, 0)
    ELSE IF Len(ci.AttachedDisks) = 0 THEN Err("no disks provided", k, 0)
    ELSE IF FirstInvalid(ci.AttachedDisks) # 0
        THEN Err("disk not found", k, FirstInvalid(ci.AttachedDisks))
    ELSE IF nameSetHas(names, ci.Name) THEN Err("error adding instance", k, 0)
    ELSE Nil

\* The body of the loop of validate for the instance ci at position k, with
\* names the registered names: the error it returns, or Nil.
validateOne(ci, k, names) ==
    IF Len(ci.AttachedDisks) = 0 THEN Err("no disks provided", k, 0)
    ELSE IF FirstInvalid(ci.AttachedDisks) # 0
        THEN Err("disk not found", k, FirstInvalid(ci.AttachedDisks))
    ELSE IF ci.StartupScript # "" /\ ~sourceExists(ci.StartupScript)
        THEN Err("file not found", k, 0)
    ELSE IF nameSetHas(names, ci.Name) THEN Err("error adding instance", k, 0)
    ELSE Nil

\* One iteration of the loop of validate.
ValidateStep ==
    /\ vpc = "loop"
    /\ vi < Len(c)
    /\ LET e == validateOne(c[vi + 1], vi + 1, validatedInstances)
       IN  IF e = Nil
           THEN /\ validatedInstances' = validatedInstances \cup {c[vi + 1].Name}
                /\ added' = Append(added, c[vi + 1].Name)
                /\ vi' = vi + 1
                /\ UNCHANGED <<vpc, verr>>
           ELSE /\ verr' = e
                /\ vpc' = "returned"
                /\ UNCHANGED <<vi, validatedInstances, added>>
    /\ UNCHANGED <<runVars, streamVars, names0>>

\* The loop is over: return nil.
ValidateReturn ==
    /\ vpc = "loop"
    /\ vi = Len(c)
    /\ verr' = Nil
    /\ vpc' = "returned"
    /\ UNCHANGED <<vi, validatedInstances, added, names0, runVars, streamVars>>

\* The steps validate is given in SpecValidate: every instance has one of
\* two names, one of three disk lists and one of three startup scripts.
ValidateNames == {NameOf(1), NameOf(2)}
ValidateInstances ==
    [Name : ValidateNames,
     AttachedDisks : {<<>>, <<DiskLink, DiskRef>>, <<DiskRef, DiskGone>>},
     StartupScript : {"", "setup.sh", "gone.ps1"},
     Metadata : {NoMetadata},
     NoCleanup : {FALSE},
     ExactName : BOOLEAN]

\* validate is called; names of earlier steps may be registered.
InitValidate ==
    /\ \E n \in 0..MaxInstances : c \in [1..n -> ValidateInstances]
    /\ InitRun
    /\ vpc = "loop"
    /\ vi = 0
    /\ verr = NoResult
    /\ validatedInstances \in {{}, {NameOf(1)}}
    /\ names0 = validatedInstances
    /\ added = <<>>

NextValidate == ValidateStep \/ ValidateReturn

SpecValidate == InitValidate /\ [][NextValidate]_vars

\* ------------------------------------------------------- specifications
\* The fetches that succeed in a behaviour of Spec, over all the instances.
RunFetches == 1

Main == Spawn \/ SpawnWaiter \/ (\E i \in Slots : RecvErr(i)) \/ RecvNil \/ RecvCancel \/ CancelWait
Prov(i) == ProvBuild(i) \/ ProvInsert(i) \/ ProvGoLog(i) \/ ProvAdd(i) \/ ProvDone(i)
Log(i, maxFetches, answers) ==
    \/ LogCtxDone(i)
    \/ LogFetchOk(i, maxFetches, answers)
    \/ LogFetchErr(i)
    \/ LogWrite(i)
    \/ LogClose(i)

Next ==
    \/ Main
    \/ WaiterWait
    \/ \E i \in Slots : Prov(i)
    \/ \E i \in Slots : Log(i, RunFetches, RunAnswers)
    \/ CloseCancel
    \/ CtxCancel

Spec == Init /\ [][Next]_vars

\* Every goroutine that can take a step is scheduled, and a call that has been
\* made returns. Nothing obliges anybody to cancel.
Fairness ==
    /\ WF_vars(Main)
    /\ WF_vars(WaiterWait)
    /\ \A i \in Slots : WF_vars(Prov(i))
    /\ \A i \in Slots : WF_vars(Log(i, RunFetches, RunAnswers))

FairSpec == Spec /\ Fairness

\* ------------------------------------------------- a step of one instance
\* The serial port is read MaxFetches times at most, with any of Answers.
MaxFetches == 2

\* The steps of one instance whose disks are links and names of disks.
OneInstances ==
    [Name : {NameOf(1)},
     AttachedDisks : {<<DiskLink>>, <<DiskRef>>, <<DiskLink, DiskRef>>, <<DiskRef, DiskRef>>},
     StartupScript : {"setup.sh"},
     Metadata : {NoMetadata},
     NoCleanup : {FALSE},
     ExactName : BOOLEAN]

\* The metadata a workflow gives to an instance.
UserMetadata ==
    {NoMetadata} \cup
    {[x \in {k} |-> <<"mine">>] :
        k \in {"key", "startup-script-url", "windows-startup-script-url",
               "daisy-logs-path"}}

\* The steps of one instance with a startup script and metadata of its own.
MetaInstances ==
    [Name : {NameOf(1)},
     AttachedDisks : {<<DiskLink, DiskRef>>},
     StartupScript : {"", "setup.sh", "install.ps1", "run.bat"},
     Metadata : UserMetadata,
     NoCleanup : {FALSE},
     ExactName : {TRUE}]

InitOf(instances) ==
    /\ \E ci \in instances : c = <<ci>>
    /\ InitRun
    /\ vpc = "returned"
    /\ vi = Len(c)
    /\ verr = Nil
    /\ validatedInstances = {c[k].Name : k \in 1..Len(c)}
    /\ added = NamesOf(c)
    /\ names0 = {}

InitOne == InitOf(OneInstances)
InitMeta == InitOf(MetaInstances)

NextOne ==
    \/ Main
    \/ WaiterWait
    \/ \E i \in Slots : Prov(i)
    \/ \E i \in Slots : Log(i, MaxFetches, Answers)
    \/ CloseCancel
    \/ CtxCancel

SpecOne == InitOne /\ [][NextOne]_vars
SpecMeta == InitMeta /\ [][NextOne]_vars

\* ----------------------------------------------------------- vocabulary
\* The goroutine of instance i has an error to report, or has reported it.
Failed(i) == perr[i] # Nil
\* Its error has been received from e.
Delivered(i) == Failed(i) /\ ppc[i] \in {"deferDone", "done"}
\* Its inst.Insert() has returned without an error.
Created(i) == ~Failed(i) /\ ppc[i] \in {"goLog", "add", "deferDone", "done"}
\* The resource kept for instance i: the declared name, the resolved name,
\* the link of the created instance and NoCleanup.
Resolved(i) == IF c[i].ExactName THEN c[i].Name ELSE genName(c[i].Name)
Resource(i) ==
    [name |-> c[i].Name, real |-> Resolved(i), link |-> SelfLink(Resolved(i)),
     noCleanup |-> c[i].NoCleanup]
\* The goroutine of instance i is past its w.instanceRefs.add.
Registered(i) == Created(i) /\ ppc[i] \in {"deferDone", "done"}
Returned == mainPc = "returned"

\* ------------------------------------------------------------------ C1
\* C1: an error run returns is the error of the one provisioner whose send on
\* e has been received, so the first delivered; and while run is at its select
\* with Cancel open and a provisioner sending an error, run can only receive an
\* error, and can receive each one at once, wherever the other provisioners
\* are.
C1_FirstErrorReturned ==
    /\ (Returned /\ result # Nil) =>
          \E i \in Insts :
              /\ Delivered(i)
              /\ result = perr[i]
              /\ \A j \in Insts : Delivered(j) => j = i
    /\ (mainPc = "select" /\ ~Cancel /\ \E i \in Insts : ppc[i] = "sendErr") =>
          /\ ~ENABLED RecvNil
          /\ ~ENABLED RecvCancel
          /\ ~ENABLED CancelWait
          /\ \A i \in Insts : ppc[i] = "sendErr" => ENABLED RecvErr(i)

\* run has returned the error of the first provisioner while the Insert of the
\* second is in flight, and nobody cancelled.
C1_Witness ==
    /\ Len(c) = 2
    /\ Returned /\ result = Err("Insert", 1, 0)
    /\ ppc[2] = "insert"
    /\ ~Cancel

\* ------------------------------------------------------------------ C2
\* C2: when run is at its select with both an error being sent and Cancel
\* closed, its step never is the cancellation case.
C2_ErrorBeatsCancel ==
    [][(mainPc = "select" /\ Cancel /\ \E i \in Insts : ppc[i] = "sendErr")
          => mainPc' # "cancelWait"]_vars

\* ------------------------------------------------------------------ C3
\* The Insert of every instance has been called and none has returned, and
\* Cancel is closed with run not yet past its select.
CancelledInFlight ==
    /\ Len(c) > 0
    /\ spawned = Len(c)
    /\ \A i \in Insts : ppc[i] = "insert"
    /\ Cancel
    /\ mainPc \in {"spawn", "select"}

\* C3: from such a state run eventually returns nil, whatever the Inserts
\* answer.
C3_CancelReturnsNil == CancelledInFlight ~> (Returned /\ result = Nil)

\* ------------------------------------------------------------------ C4
\* C4: when run has returned nil every provisioner is done, the WaitGroup is
\* at zero, every instance whose Insert succeeded has its resource in
\* instanceRefs, and instanceRefs does not change any more.
C4_NilAfterJoin ==
    /\ [](Returned /\ result = Nil =>
             /\ wg = 0
             /\ \A i \in Insts : ppc[i] = "done"
             /\ \A i \in Insts : Created(i) => instanceRefs[c[i].Name] = Resource(i))
    /\ [][(Returned /\ result = Nil) => instanceRefs' = instanceRefs]_vars

\* run has returned nil on the cancellation path (the nil of the waiting
\* goroutine has not been received) with two instances created and registered.
C4_Witness ==
    /\ Len(c) = 2
    /\ Returned /\ result = Nil
    /\ wpc # "done"
    /\ \A i \in Insts : Created(i) /\ instanceRefs[c[i].Name] = Resource(i)

\* ------------------------------------------------------------------ C5
\* C5: if no provisioner ever has an error and Cancel is never closed, run
\* eventually returns nil, for every number of instances.
C5_SucceedsEventually ==
    [](~Cancel /\ \A i \in Slots : ~Failed(i)) => <>(Returned /\ result = Nil)

\* run has returned nil for two instances, without an error or a cancellation.
C5_Witness ==
    /\ Len(c) = 2
    /\ Returned /\ result = Nil
    /\ ~Cancel
    /\ \A i \in Insts : Created(i) /\ ppc[i] = "done"

\* ------------------------------------------------------------------ C6
\* C6: every provisioner run starts eventually finishes (its wg.Done is
\* done).
C6_EveryProvisionerFinishes ==
    \A i \in Slots : <>(i > Len(c) \/ ppc[i] = "done")

\* ------------------------------------------------------------------ C7
\* Every provisioner has come to its end or to its send, exactly instance f
\* has failed, and Cancel is open.
OnlyFailed(f) ==
    /\ spawned = Len(c)
    /\ \A i \in Insts : ppc[i] \in {"sendErr", "deferDone", "done"}
    /\ {i \in Insts : Failed(i)} = {f}
    /\ ~Cancel

\* With f the only failure: run has not taken the cancellation path, what it
\* has returned is the error of f, and instanceRefs has the resource of every
\* other instance and none for f.
C7_Kept ==
    \A f \in Insts : OnlyFailed(f) =>
        /\ mainPc \in {"spawn", "select", "returned"}
        /\ Returned => result = perr[f]
        /\ instanceRefs[c[f].Name] = NoRes
        /\ \A j \in Insts \ {f} : instanceRefs[c[j].Name] = Resource(j)

\* C7: when exactly one instance fails and nobody cancels, run returns the
\* error of that instance (it does return, and returns nothing else), and
\* instanceRefs has the resource of every other instance and none for the
\* failed one.
C7_OneFailure ==
    /\ []C7_Kept
    /\ (\E f \in Insts : OnlyFailed(f)) ~>
          \/ Cancel
          \/ \E f \in Insts :
                /\ {i \in Insts : Failed(i)} = {f}
                /\ Returned /\ result = perr[f]

\* Of two instances the second failed in Insert and run returned its error;
\* the first is registered.
C7_Witness ==
    /\ Len(c) = 2
    /\ OnlyFailed(2)
    /\ Returned /\ result = Err("Insert", 2, 0)
    /\ instanceRefs[c[1].Name] = Resource(1)

\* ------------------------------------------------------------------ C8
\* The names under which instanceRefs has a resource.
Kept == {n \in DeclNames : instanceRefs[n] # NoRes}

\* instanceRefs has an entry only for an instance whose Insert succeeded and
\* whose provisioner has written it, under the declared name and with the
\* declared name, the resolved name, the link and NoCleanup; every provisioner
\* past its write has its entry, one entry each.
C8_Entries ==
    /\ \A n \in Kept : \E i \in Insts :
          c[i].Name = n /\ Registered(i) /\ instanceRefs[n] = Resource(i)
    /\ \A i \in Insts : Registered(i) => instanceRefs[c[i].Name] = Resource(i)
    /\ Cardinality(Kept) = Cardinality({i \in Insts : Registered(i)})

\* A step changes instanceRefs only as the write of one provisioner, which
\* adds one entry and leaves the entries there untouched.
C8_WriteOnce ==
    /\ \A n \in DeclNames : instanceRefs[n] # NoRes => instanceRefs'[n] = instanceRefs[n]
    /\ instanceRefs' # instanceRefs =>
          \E i \in Insts :
              /\ ppc[i] = "add" /\ ppc'[i] = "deferDone"
              /\ instanceRefs[c[i].Name] = NoRes
              /\ \A n \in DeclNames \ {c[i].Name} : instanceRefs'[n] = instanceRefs[n]

\* C8: in every state instanceRefs has exactly the entries of the instances
\* whose Insert succeeded and whose provisioner has written, each with its four
\* fields; each provisioner writes once; no entry is lost or modified.
C8_Registry == []C8_Entries /\ [][C8_WriteOnce]_vars

\* Two provisioners have finished after a success and both entries are there.
C8_Witness ==
    /\ Len(c) = 2
    /\ \A i \in Insts : ppc[i] = "done" /\ Created(i)
    /\ instanceRefs[c[1].Name] = Resource(1)
    /\ instanceRefs[c[2].Name] = Resource(2)
    /\ Resource(1).real = c[1].Name /\ Resource(2).real # c[2].Name

\* ------------------------------------------------------------------ C9
\* C9: a step of logSerialOutput leaves alone the position and the result of
\* run, the provisioners and their errors (so what is sent on e), the
\* WaitGroup, the waiting goroutine and instanceRefs; and a provisioner that
\* has started logSerialOutput can always go on to its write and its wg.Done.
C9_StreamerContained ==
    /\ [][(\E i \in Slots : Log(i, RunFetches, RunAnswers)) =>
             UNCHANGED <<mainPc, result, ppc, perr, wg, wpc, Cancel, instanceRefs>>]_vars
    /\ [](\A i \in Insts :
             /\ ppc[i] = "add" => ENABLED ProvAdd(i)
             /\ ppc[i] = "deferDone" => ENABLED ProvDone(i))

\* logSerialOutput of the first instance ended on a failed fetch and that of
\* the second on a failed write or close; run returned nil with both
\* instances registered.
C9_Witness ==
    /\ Len(c) = 2
    /\ ~CtxDone
    /\ spc[1] = "exit" /\ fetches[1] = <<>>
    /\ spc[2] = "exit" /\ fetches[2] # <<>> /\ logsObj[2] = <<>>
    /\ Returned /\ result = Nil
    /\ \A i \in Insts : instanceRefs[c[i].Name] = Resource(i)

\* ----------------------------------------------------------------- C10
\* The instance is in order: it has disks, all valid, and its startup script,
\* if it has one, is among the sources.
WellFormed(ci) ==
    /\ Len(ci.AttachedDisks) > 0
    /\ \A d \in 1..Len(ci.AttachedDisks) : diskValid(ci.AttachedDisks[d])
    /\ ci.StartupScript = "" \/ sourceExists(ci.StartupScript)

\* The error the checks give for the instance at position k when names are
\* registered, in the order: no disks, a disk that is not valid, a startup
\* script that is missing, a name that is registered.
FirstFault(ci, k, names) ==
    CASE Len(ci.AttachedDisks) = 0 -> Err("no disks provided", k, 0)
      [] \E d \in 1..Len(ci.AttachedDisks) : ~diskValid(ci.AttachedDisks[d]) ->
            Err("disk not found", k,
                CHOOSE d \in 1..Len(ci.AttachedDisks) :
                    /\ ~diskValid(ci.AttachedDisks[d])
                    /\ \A d2 \in 1..(d - 1) : diskValid(ci.AttachedDisks[d2]))
      [] ~WellFormed(ci) -> Err("file not found", k, 0)
      [] ci.Name \in names -> Err("error adding instance", k, 0)
      [] OTHER -> Nil

\* When validate returns an error at instance k = vi + 1, the instances before
\* k are in order and were registered in their order, one add each; the error
\* is the first fault of instance k in the order of the checks; nothing was
\* registered for k or a later instance; validate is over. When it returns nil
\* all the names were registered.
C10_State ==
    /\ validatedInstances = names0 \cup {added[j] : j \in 1..Len(added)}
    /\ vi = Len(added)
    /\ (vpc = "returned" /\ verr # Nil) =>
          /\ vi + 1 \in 1..Len(c)
          /\ added = NamesOf(SubSeq(c, 1, vi))
          /\ \A j \in 1..vi : WellFormed(c[j])
          /\ verr = FirstFault(c[vi + 1], vi + 1, names0 \cup {c[j].Name : j \in 1..vi})
          /\ ~ENABLED NextValidate
    /\ (vpc = "returned" /\ verr = Nil) =>
          /\ added = NamesOf(c)
          /\ \A j \in 1..Len(c) : WellFormed(c[j])
          /\ ~ENABLED NextValidate

\* A step of validate changes nothing of run or logSerialOutput, and a
\* failing step does not change validatedInstances.
C10_Step ==
    /\ UNCHANGED <<runVars, streamVars>>
    /\ verr' # verr /\ verr' # Nil => validatedInstances' = validatedInstances

\* C10: validate checks the instances in order and each one in the order no
\* disks, disk not valid, startup script missing, name registered; it returns
\* at the first fault, with exactly the names of the instances before it
\* registered by this call and no later instance looked at; registering names
\* is its only change of state.
C10_ShortCircuit == []C10_State /\ [][C10_Step]_vars

\* validate returned the error of a registered name at the second instance,
\* whose name the first instance had registered.
C10_Witness ==
    /\ Len(c) = 2
    /\ vpc = "returned" /\ verr = Err("error adding instance", 2, 0)
    /\ names0 = {}
    /\ added = <<c[1].Name>>
    /\ c[2].Name = c[1].Name

\* ---------------------------------------------------------------- C11
\* A getDisk call that did not find its disk is the last one its goroutine
\* makes; the goroutine has the error of that call as its error, is at or
\* past the send of it, has not built the metadata nor called Insert, has
\* started no streamer and has put nothing in the reference map.
C11_State ==
    \A i \in Insts : \A n \in 1..Len(lookups[i]) :
        /\ ~isLink(c[i].AttachedDisks[lookups[i][n].pos])
        /\ n > 1 => lookups[i][n].pos > lookups[i][n - 1].pos
        /\ ~lookups[i][n].ok =>
              /\ n = Len(lookups[i])
              /\ perr[i] = Err("getDisk", i, lookups[i][n].pos)
              /\ ppc[i] \in {"sendErr", "deferDone", "done"}
              /\ md[i] = NoMetadata
              /\ spc[i] = "none"
              /\ instanceRefs[c[i].Name] = NoRes

\* The disks are looked up in the one step from "start", and never again.
C11_Step ==
    \A i \in Slots :
        /\ ppc[i] # "start" => lookups'[i] = lookups[i]
        /\ (Failed(i) /\ perr[i].op = "getDisk") =>
              /\ perr'[i] = perr[i]
              /\ ppc'[i] \in {"sendErr", "deferDone", "done"}

\* C11: a provisioner whose N-th disk reference is a name that the lookup
\* does not find reports the error of the lookup, and never calls Insert,
\* never writes to the reference map and never starts a streamer; the lookup
\* is not made again.
C11_MissingDisk == []C11_State /\ [][C11_Step]_vars

\* The second lookup of a goroutine failed, and run has returned its error.
C11_Witness ==
    /\ Len(c) = 1
    /\ Len(lookups[1]) = 2
    /\ lookups[1][1].ok /\ ~lookups[1][2].ok
    /\ ppc[1] = "done"
    /\ Returned /\ result = Err("getDisk", 1, 2)

\* ---------------------------------------------------------------- C12
\* The key under which the startup script of ci goes.
StartupKey(ci) ==
    IF Ext(ci.StartupScript) \in {".ps1", ".bat", ".cmd"}
    THEN "windows-startup-script-url" ELSE "startup-script-url"

StandardKeys == {"daisy-sources-path", "daisy-logs-path", "daisy-outs-path"}

\* The three standard keys of a created instance have the standard values.
StandardKeysWin ==
    \A i \in Insts : Created(i) =>
        /\ StandardKeys \subseteq DOMAIN md[i]
        /\ md[i]["daisy-sources-path"] = GsPath(<<"sources">>)
        /\ md[i]["daisy-logs-path"] = GsPath(<<"logs">>)
        /\ md[i]["daisy-outs-path"] = GsPath(<<"outs">>)

\* C12: the metadata of a created instance is the metadata of the workflow
\* overlaid by the startup-script key, if a script is set, and by the three
\* standard keys: the standard keys have the standard values, the key chosen
\* for the script has the path of the uploaded script even when the metadata
\* of the workflow has the same key, and the other keys are the workflow's.
C12_MetadataOverlay ==
    \A i \in Insts : Created(i) =>
        LET ci == c[i]
            own == IF ci.StartupScript = "" THEN {} ELSE {StartupKey(ci)}
        IN  /\ StandardKeysWin
            /\ DOMAIN md[i] = DOMAIN ci.Metadata \cup own \cup StandardKeys
            /\ \A k \in own : md[i][k] = GsPath(<<"sources", ci.StartupScript>>)
            /\ \A k \in DOMAIN ci.Metadata \ (own \cup StandardKeys) :
                  md[i][k] = ci.Metadata[k]

\* ---------------------------------------------------------------- C13
\* The step is of two well-formed instances that share their declared name
\* and both have ExactName off, and no name was validated before it.
SharedName ==
    /\ Len(c) = 2
    /\ c[1].Name = c[2].Name
    /\ ~c[1].ExactName /\ ~c[2].ExactName
    /\ WellFormed(c[1]) /\ WellFormed(c[2])
    /\ names0 = {}

\* C13: two instances of a step that share a declared name with ExactName
\* off do not collide: validate rejects neither of them.
C13_SharedNameAccepted ==
    (SharedName /\ vpc = "returned") => verr = Nil

\* ---------------------------------------------------------------- C14
\* The fetches that succeeded are a chain from offset 0, and start is where
\* the chain ends: it is the offset of the next fetch.
C14_State ==
    \A i \in Slots :
        /\ \A j \in 1..Len(fetches[i]) :
              fetches[i][j].from = IF j = 1 THEN 0 ELSE fetches[i][j - 1].next
        /\ start[i] = IF fetches[i] = <<>> THEN 0
                      ELSE fetches[i][Len(fetches[i])].next

\* A fetch is made by a streamer at its select, that is when the fetch
\* before it and the write of its log are over, and one at a time.
C14_Step ==
    \A i \in Slots : fetches'[i] # fetches[i] =>
        /\ spc[i] = "select" /\ spc'[i] = "write"
        /\ Len(fetches'[i]) = Len(fetches[i]) + 1
        /\ SubSeq(fetches'[i], 1, Len(fetches[i])) = fetches[i]
        /\ fetches'[i][Len(fetches'[i])].from = start[i]
        /\ fetches[i] # <<>> => logsObj[i] = buf[i]

\* C14: a streamer has one fetch in flight at most; its first fetch is at
\* offset 0 and each later one at the next-offset that the successful fetch
\* before it returned; no fetch is made before the fetch before it and the
\* write of the log that followed are over.
C14_FetchesInSequence == []C14_State /\ [][C14_Step]_vars

\* Two fetches, the second from where the first ended, and both written.
C14_Witness ==
    /\ Len(fetches[1]) = 2
    /\ fetches[1][1].from = 0
    /\ fetches[1][2].from = fetches[1][1].next
    /\ fetches[1][2].from = 2
    /\ spc[1] = "select"

\* ---------------------------------------------------------------- C15
\* The contents of the first n fetches of f, one after the other.
RECURSIVE ContentsOf(_, _)
ContentsOf(f, n) ==
    IF n <= 0 THEN <<>> ELSE ContentsOf(f, n - 1) \o f[n].contents

\* The buffer holds everything fetched; the object holds it too once the
\* write of the last fetch is over, and everything but the last fetch while
\* that write is being made or if it failed.
C15_State ==
    \A i \in Slots :
        LET n == Len(fetches[i])
        IN  /\ buf[i] = ContentsOf(fetches[i], n)
            /\ spc[i] = "select" => logsObj[i] = ContentsOf(fetches[i], n)
            /\ spc[i] \in {"write", "close"} => logsObj[i] = ContentsOf(fetches[i], n - 1)
            /\ spc[i] = "exit" =>
                  logsObj[i] \in {ContentsOf(fetches[i], n), ContentsOf(fetches[i], n - 1)}

\* The object changes at the close of a write only, and to the whole buffer.
C15_Step ==
    \A i \in Slots : logsObj'[i] # logsObj[i] =>
        /\ spc[i] = "close" /\ spc'[i] = "select"
        /\ logsObj'[i] = buf[i]

\* C15: after every successful fetch the log object is written again with
\* the whole buffer, not appended to: after the n-th successful fetch and
\* write it holds the contents of the fetches 1..n one after the other.
C15_LogIsAllFetched == []C15_State /\ [][C15_Step]_vars

\* Two fetches of different contents, both written.
C15_Witness ==
    /\ Len(fetches[1]) = 2
    /\ spc[1] = "select"
    /\ logsObj[1] = <<"a", "b">>

\* ---------------------------------------------------------------- C16
\* C16: the reference of an instance is written before its streamer is
\* started: whenever the streamer of an instance runs or has run, the
\* resource of the instance is in the reference map.
C16_TrackedBeforeStreamer ==
    \A i \in Insts : spc[i] # "none" => instanceRefs[c[i].Name] = Resource(i)

\* ---------------------------------------------------------------- C17
\* C17: a streamer that is at its select when w.Ctx is done returns at once:
\* it makes no fetch after that, and so no write of the log. The select is
\* one the loop has come back to, after an iteration during which the next
\* tick may have come.
C17_NoFetchOnceDone ==
    [][\A i \in Slots : (CtxDone /\ spc[i] = "select" /\ fetches[i] # <<>>) =>
            /\ fetches'[i] = fetches[i]
            /\ spc'[i] \in {"select", "exit"}]_vars

\* ---------------------------------------------------------------- C18
\* A streamer that has returned stays so, and its cursor, its buffer, its
\* fetches and the log object stay as they are; the step by which it returns
\* (a fetch, a write or a close that failed, or w.Ctx done) changes none of
\* them either; and the loop goes back to its select after a close that
\* succeeded only.
C18_Step ==
    \A i \in Slots :
        /\ spc[i] = "exit" => spc'[i] = "exit"
        /\ spc'[i] = "exit" =>
              /\ start'[i] = start[i] /\ buf'[i] = buf[i]
              /\ logsObj'[i] = logsObj[i] /\ fetches'[i] = fetches[i]
        /\ spc[i] = "write" => spc'[i] \in {"write", "close", "exit"}
        /\ (spc[i] = "close" /\ spc'[i] = "select") => logsObj'[i] = buf[i]

\* The log object of a streamer that has returned holds what the last write
\* that succeeded wrote: the contents of the first k fetches, for some k.
C18_State ==
    \A i \in Slots : spc[i] = "exit" =>
        \E k \in 0..Len(fetches[i]) : logsObj[i] = ContentsOf(fetches[i], k)

\* C18: a streamer stops for good at its first operation that fails, a
\* fetch, a write or a close: it makes no fetch and no write after it, the
\* log object keeps what the last successful write put there, and a fetch
\* that failed moves neither the cursor nor the buffer.
C18_StopsAtFirstFailure == []C18_State /\ [][C18_Step]_vars

\* The write of the second fetch failed with w.Ctx not done: the streamer has
\* returned and the object holds the first fetch.
C18_Witness ==
    /\ ~CtxDone
    /\ spc[1] = "exit"
    /\ Len(fetches[1]) = 2
    /\ logsObj[1] = fetches[1][1].contents
    /\ buf[1] # logsObj[1]

\* ---------------------------------------------------------------- C19
\* run has returned an error, and the Insert of some instance is in flight
\* or has returned with the instance not yet in the reference map.
FailedWithStragglers ==
    /\ Returned /\ result # Nil
    /\ \E j \in Insts : ppc[j] \in {"insert", "goLog", "add"}

\* No Insert is in flight, and every created instance has its streamer
\* started and its resource in the reference map.
StragglersSettled ==
    \A j \in Insts :
        /\ ppc[j] \notin {"insert", "goLog", "add"}
        /\ Created(j) => (spc[j] # "none" /\ instanceRefs[c[j].Name] = Resource(j))

\* C19: run returns its error without waiting for the other provisioners:
\* one whose Insert is in flight when run has returned goes on, and if its
\* Insert succeeds it starts its streamer and writes its resource to the
\* reference map after the step has failed.
C19_StragglersGoOn == FailedWithStragglers ~> StragglersSettled

\* run has returned the error of instance 1; instance 2 has been created and
\* its streamer started, and its resource is still to be written.
C19_Witness ==
    /\ Len(c) = 2
    /\ Returned /\ result = perr[1] /\ Failed(1)
    /\ ppc[2] = "add" /\ spc[2] # "none"
    /\ instanceRefs[c[2].Name] = NoRes

\* ---------------------------------------------------------------- C20
\* C20: run does not return nil when a provisioner has an error to report:
\* a provisioner with an error is past its send only if run has received
\* that error and returned it, and when run has returned nil no provisioner
\* has failed and every declared instance has been created.
C20_NilMeansAllCreated ==
    /\ \A i \in Insts : Delivered(i) => (Returned /\ result = perr[i])
    /\ (Returned /\ result = Nil) =>
          \A i \in Insts : ~Failed(i) /\ Created(i)

\* run has received the nil of the waiting goroutine, nobody having
\* cancelled: the two declared instances have been created.
C20_Witness ==
    /\ Len(c) = 2
    /\ ~Cancel /\ wpc = "done"
    /\ Returned /\ result = Nil
    /\ \A i \in Insts : ~Failed(i) /\ ppc[i] = "done"

====
